---- MODULE Spec2Model ----
(***************************************************************************)
(* A model of createPong (src/src/pong.ts): the game state record, the     *)
(* simulation step update(), the frame driver loop()/start()/stop(), the   *)
(* input handlers and the public control surface, together with the host   *)
(* capabilities they use (requestAnimationFrame queue, performance.now()   *)
(* clock, event listeners).                                                *)
(*                                                                         *)
(* JavaScript numbers are modelled in fixed point: every length, position  *)
(* and velocity is an integer count of 1/SCALE pixels.  Times are integer  *)
(* milliseconds.                                                           *)
(***************************************************************************)
EXTENDS Integers, Sequences, FiniteSets, TLC

\* ---------------------------------------------------------------- bounds
\* Frames are run as long as no score exceeds MaxScore.
MaxScore == 3
\* The clock is observed up to MaxTime milliseconds.
MaxTime == 1000

\* ------------------------------------------------------- number model
\* Fixed-point resolution: units per pixel.
SCALE == 100
Fx(n) == n * SCALE

\* ------------------------------------------------- program constants
WIDTH == 800
HEIGHT == 500
PADDLE_WIDTH == 12
PADDLE_HEIGHT == 90
BALL_RADIUS == 8
GOAL_PAUSE_MS == 1000
PLAYER_X == 20
AI_X == WIDTH - 20 - PADDLE_WIDTH
touchThreshold == 20

\* The options a caller passes to createPong.  Speeds are in fixed point.
\* One configuration with a fast ball, so that paddle hits, wall bounces,
\* goals and a win all happen within a few frames.
Options ==
  { [ width |-> 400, responsive |-> TRUE, maxWidth |-> 600,
      playerSpeed |-> Fx(410), aiSpeed |-> Fx(100),
      ballSpeed |-> Fx(360), ballSpeedStep |-> Fx(10), ballSpeedMax |-> Fx(400),
      winScore |-> 2 ] }

\* Values of Math.random(), in hundredths (0 <= r < 100).
RandomUnit == {0, 50, 99}
\* clientY of the touch point at touchstart, and at touchmove.
TouchStartYs == {100}
TouchMoveYs == {79, 80, 100, 120, 121}
\* Widths the container reports to updateSize.
ContainerWidths == {500, 700}
\* Key codes delivered to the host element.
KeyCodes == {"ArrowUp", "ArrowDown", "Enter", "Space"}
\* The listeners createPong registers.
HostListeners == {"keydown", "keyup", "click", "touchstart", "touchmove", "touchend"}
ResponsiveListeners == {"resize", "resizeObserver"}

\* --------------------------------------------------------- math helpers
Min2(a, b) == IF a <= b THEN a ELSE b
Max2(a, b) == IF a >= b THEN a ELSE b
Abs(a) == IF a < 0 THEN -a ELSE a
\* Division rounding toward zero (the fixed-point image of "/").
FxDiv(a, b) == IF a >= 0 THEN a \div b ELSE -((-a) \div b)

\* Mutant of clamp: the upper bound is not applied.
clampNoUpper(v, lo, hi) == Max2(lo, v)

clamp(v, lo, hi) == Min2(hi, Max2(lo, v))
\* Math.random() < 0.5 ? -1 : 1
randomSign(r) == IF r < 50 THEN -1 ELSE 1
\* min + Math.random() * (max - min)
randomRange(lo, hi, r) == lo + FxDiv(r * (hi - lo), 100)

RECURSIVE SqrtBetween(_, _, _)
SqrtBetween(n, lo, hi) ==
  IF lo >= hi THEN lo
  ELSE LET mid == (lo + hi + 1) \div 2
       IN IF mid * mid <= n THEN SqrtBetween(n, mid, hi)
          ELSE SqrtBetween(n, lo, mid - 1)
\* Math.sqrt on fixed-point squares, rounded down.
Sqrt(n) == SqrtBetween(n, 0, 46340)
\* Math.hypot
Hypot(a, b) == Sqrt(a * a + b * b)
\* Math.sign(v) || 1
SignOr1(v) == IF v < 0 THEN -1 ELSE 1

\* ------------------------------------------------------------ variables
VARIABLES
  opts,          \* the options createPong was called with
  state,         \* the GameState record
  overlay,       \* overlay element: text (with the scores it shows) and cover style
  touchStartY,   \* closure variable touchStartY (touchCurrentY is assigned before
                 \* each of its reads, so it carries no state between events)
  listeners,     \* handlers currently attached to host / window / resize observer
  mounted,       \* host.parentNode is the container
  hostWidth,     \* host.style.width in pixels (responsive sizing)
  pending,       \* host scheduler: ids of requested, not yet fired animation frames
  now,           \* performance.now(), in milliseconds
  destroyed,     \* destroy() has returned (the instance must not be used again)
  lastOp         \* the last step: an API call, a host event, a frame or a clock tick,
                 \* and the call (start, resetMatch) a host event made

vars == << opts, state, overlay, touchStartY, listeners, mounted, hostWidth,
           pending, now, destroyed, lastOp >>

\* ------------------------------------------------------------- overlay
OverlayStart == [text |-> "Click or tap to start", player |-> 0, ai |-> 0, cover |-> TRUE]
OverlayClear == [text |-> "", player |-> 0, ai |-> 0, cover |-> FALSE]
OverlayWin(s) ==
  [text |-> IF s.scores.player > s.scores.ai
            THEN "You win! Tap or press Enter to restart"
            ELSE "AI wins! Tap or press Enter to restart",
   player |-> 0, ai |-> 0, cover |-> TRUE]

\* ------------------------------------------------------- game functions
PaddleCentre == FxDiv(Fx(HEIGHT), 2) - FxDiv(Fx(PADDLE_HEIGHT), 2)
PaddleMax == Fx(HEIGHT - PADDLE_HEIGHT)

\* resetBall(direction): direction is <<>> when the argument is omitted.
resetBall(s, o, direction, r1, r2) ==
  LET dirX == IF direction # << >> THEN direction[1] ELSE randomSign(r1)
  IN [s EXCEPT !.ball = [x |-> FxDiv(Fx(WIDTH), 2),
                         y |-> FxDiv(Fx(HEIGHT), 2),
                         vx |-> dirX * o.ballSpeed,
                         vy |-> randomRange(-FxDiv(o.ballSpeed, 2),
                                            FxDiv(o.ballSpeed, 2), r2)]]

\* Mutant of resetMatch: the AI score is not zeroed.
resetMatchKeepsAi(s, o, r1, r2) ==
  [state |-> resetBall([s EXCEPT !.scores.player = 0,
                                 !.running = TRUE,
                                 !.player = [y |-> PaddleCentre],
                                 !.ai = [y |-> PaddleCentre]],
                       o, << >>, r1, r2),
   overlay |-> OverlayClear]

\* Mutant of resetMatch: the scores are zeroed only when the match is not running.
resetMatchWhenStopped(s, o, r1, r2) ==
  [state |-> resetBall([s EXCEPT !.scores = IF s.running THEN @
                                            ELSE [player |-> 0, ai |-> 0],
                                 !.running = TRUE,
                                 !.player = [y |-> PaddleCentre],
                                 !.ai = [y |-> PaddleCentre]],
                       o, << >>, r1, r2),
   overlay |-> OverlayClear]

\* Mutant of resetMatch: the goal pause is cancelled.
resetMatchClearsPause(s, o, r1, r2) ==
  [state |-> resetBall([s EXCEPT !.scores = [player |-> 0, ai |-> 0],
                                 !.running = TRUE,
                                 !.pausedUntil = 0,
                                 !.player = [y |-> PaddleCentre],
                                 !.ai = [y |-> PaddleCentre]],
                       o, << >>, r1, r2),
   overlay |-> OverlayClear]

resetMatch(s, o, r1, r2) ==
  [state |-> resetBall([s EXCEPT !.scores = [player |-> 0, ai |-> 0],
                                 !.running = TRUE,
                                 !.player = [y |-> PaddleCentre],
                                 !.ai = [y |-> PaddleCentre]],
                       o, << >>, r1, r2),
   overlay |-> OverlayClear]

\* Mutant of bounceSpeed: the speed is not capped at BALL_SPEED_MAX.
bounceSpeedUncapped(ball, o) == Hypot(-ball.vx, ball.vy) + o.ballSpeedStep

\* reflectFromPaddle(paddleY), applied to the ball record, line by line.
\* speed: min(hypot(vx, vy) + BALL_SPEED_STEP, BALL_SPEED_MAX), after vx *= -1.
bounceSpeed(ball, o) ==
  Min2(Hypot(-ball.vx, ball.vy) + o.ballSpeedStep, o.ballSpeedMax)
\* angleInfluence * 2, with angleInfluence = (y - paddle centre) / (PADDLE_HEIGHT / 2).
spin(ball, paddleY) ==
  FxDiv(2 * (ball.y - (paddleY + FxDiv(Fx(PADDLE_HEIGHT), 2))), PADDLE_HEIGHT \div 2)
\* vx = directionX * sqrt(max(speed^2 - vy^2, 1))
bounceVx(directionX, speed, vy) ==
  directionX * Sqrt(Max2(speed * speed - vy * vy, Fx(1) * Fx(1)))
\* hypot(vx, vy) || 1
normOr1(h) == IF h = 0 THEN Fx(1) ELSE h
\* vx = (vx / norm) * speed; vy = (vy / norm) * speed
rescale(ball, vx, vy, speed, norm) ==
  [ball EXCEPT !.vx = FxDiv(vx * speed, norm), !.vy = FxDiv(vy * speed, norm)]
renormalize(ball, vx, vy, speed) ==
  rescale(ball, vx, vy, speed, normOr1(Hypot(vx, vy)))
\* Mutant of reflectWith: directionX is taken from vx as it was before vx *= -1.
reflectWithKeepsDirection(ball, speed, vy) ==
  renormalize(ball, bounceVx(SignOr1(ball.vx), speed, vy), vy, speed)
reflectWith(ball, speed, vy) ==
  renormalize(ball, bounceVx(SignOr1(-ball.vx), speed, vy), vy, speed)
reflectFromPaddle(ball, o, paddleY) ==
  reflectWith(ball, bounceSpeed(ball, o), ball.vy + spin(ball, paddleY))

\* Mutant of onScore: the serve goes toward the side that scored.
onScoreServesBack(s, ov, o, nextDirection, t, r) ==
  IF s.scores.player >= o.winScore \/ s.scores.ai >= o.winScore
  THEN [state |-> [s EXCEPT !.running = FALSE], overlay |-> OverlayWin(s)]
  ELSE [state |-> resetBall([s EXCEPT !.pausedUntil = t + GOAL_PAUSE_MS],
                            o, << -nextDirection >>, r, r),
        overlay |-> ov]

onScore(s, ov, o, nextDirection, t, r) ==
  IF s.scores.player >= o.winScore \/ s.scores.ai >= o.winScore
  THEN [state |-> [s EXCEPT !.running = FALSE], overlay |-> OverlayWin(s)]
  ELSE [state |-> resetBall([s EXCEPT !.pausedUntil = t + GOAL_PAUSE_MS],
                            o, << nextDirection >>, r, r),
        overlay |-> ov]

\* Mutant of HitsPlayer: only the front 2 pixels of the paddle collide.
HitsPlayerThin(ball, paddleY) ==
  /\ ball.x - Fx(BALL_RADIUS) <= Fx(PLAYER_X + PADDLE_WIDTH)
  /\ ball.x - Fx(BALL_RADIUS) >= Fx(PLAYER_X + PADDLE_WIDTH - 2)
  /\ ball.y >= paddleY
  /\ ball.y <= paddleY + Fx(PADDLE_HEIGHT)

HitsPlayer(ball, paddleY) ==
  /\ ball.x - Fx(BALL_RADIUS) <= Fx(PLAYER_X + PADDLE_WIDTH)
  /\ ball.x - Fx(BALL_RADIUS) >= Fx(PLAYER_X)
  /\ ball.y >= paddleY
  /\ ball.y <= paddleY + Fx(PADDLE_HEIGHT)

HitsAi(ball, paddleY) ==
  /\ ball.x + Fx(BALL_RADIUS) >= Fx(AI_X)
  /\ ball.x + Fx(BALL_RADIUS) <= Fx(AI_X + PADDLE_WIDTH)
  /\ ball.y >= paddleY
  /\ ball.y <= paddleY + Fx(PADDLE_HEIGHT)

\* Mutant of movePlayer: the down flag wins over the up flag.
movePlayerDownWins(s, o) ==
  clamp(s.player.y + (IF s.input.down THEN o.playerSpeed
                      ELSE IF s.input.up THEN -o.playerSpeed ELSE 0),
        0, PaddleMax)

\* update(), lines 276-279: the player paddle.
movePlayer(s, o) ==
  clamp(s.player.y + (IF s.input.up THEN -o.playerSpeed ELSE 0)
                   + (IF s.input.down THEN o.playerSpeed ELSE 0),
        0, PaddleMax)

\* Mutant of aiSpeedFor: no handicap while the ball moves away.
aiSpeedFull(ball, o) == o.aiSpeed

\* update(), lines 281-285: the AI paddle.
aiSpeedFor(ball, o) == IF ball.vx < 0 THEN FxDiv(o.aiSpeed * 3, 10) ELSE o.aiSpeed
trackBall(aiY, ballTargetY, aiSpeed) ==
  clamp(aiY + clamp(ballTargetY - aiY, -aiSpeed, aiSpeed), 0, PaddleMax)
moveAi(s, o) ==
  trackBall(s.ai.y, s.ball.y - FxDiv(Fx(PADDLE_HEIGHT), 2), aiSpeedFor(s.ball, o))

\* update(), lines 287-291: ball integration and the two walls.
integrate(ball) == [ball EXCEPT !.x = @ + ball.vx, !.y = @ + ball.vy]
\* Mutant of bounceTop: vy is inverted but the ball is not snapped onto the wall.
bounceTopNoSnap(ball) ==
  IF ball.y - Fx(BALL_RADIUS) <= 0 THEN [ball EXCEPT !.vy = -@] ELSE ball
bounceTop(ball) ==
  IF ball.y - Fx(BALL_RADIUS) <= 0
  THEN [ball EXCEPT !.y = Fx(BALL_RADIUS), !.vy = -@] ELSE ball
bounceBottom(ball) ==
  IF ball.y + Fx(BALL_RADIUS) >= Fx(HEIGHT)
  THEN [ball EXCEPT !.y = Fx(HEIGHT - BALL_RADIUS), !.vy = -@] ELSE ball

\* update(), lines 293-310: the two paddles.
collidePlayer(ball, o, paddleY) ==
  IF HitsPlayer(ball, paddleY)
  THEN reflectFromPaddle([ball EXCEPT !.x = Fx(PLAYER_X + PADDLE_WIDTH + BALL_RADIUS)],
                         o, paddleY)
  ELSE ball
collideAi(ball, o, paddleY) ==
  IF HitsAi(ball, paddleY)
  THEN reflectFromPaddle([ball EXCEPT !.x = Fx(AI_X - BALL_RADIUS)], o, paddleY)
  ELSE ball

\* update(), lines 276-310: paddles, ball integration, wall and paddle collisions.
simulate(s, o) ==
  [s EXCEPT !.player = [y |-> movePlayer(s, o)],
            !.ai = [y |-> moveAi(s, o)],
            !.ball = collideAi(collidePlayer(bounceBottom(bounceTop(integrate(s.ball))),
                                             o, movePlayer(s, o)),
                               o, moveAi(s, o))]

\* update(), lines 312-313: the goal lines, on the state s1 the simulation left.
score(s1, ov, o, t, r) ==
  IF s1.ball.x < -Fx(BALL_RADIUS)
  THEN onScore([s1 EXCEPT !.scores.ai = @ + 1], ov, o, -1, t, r)
  ELSE IF s1.ball.x > Fx(WIDTH + BALL_RADIUS)
  THEN onScore([s1 EXCEPT !.scores.player = @ + 1], ov, o, 1, t, r)
  ELSE [state |-> s1, overlay |-> ov]

\* Mutant of update: the post-goal pause is not honoured.
updateIgnoresPause(s, ov, o, t, r) ==
  IF ~s.running THEN [state |-> s, overlay |-> ov]
  ELSE score(simulate(s, o), ov, o, t, r)

\* update(dt): t is performance.now(), r the Math.random() value a serve draws.
\* dt is computed by loop() and not used.
update(s, ov, o, t, r) ==
  IF ~s.running THEN [state |-> s, overlay |-> ov]
  ELSE IF t < s.pausedUntil THEN [state |-> s, overlay |-> ov]
  ELSE score(simulate(s, o), ov, o, t, r)

\* render(): the canvas is write-only; the overlay text follows the scores while running.
render(s, ov) ==
  IF s.running
  THEN [ov EXCEPT !.text = "score", !.player = s.scores.player, !.ai = s.scores.ai]
  ELSE ov

\* getScores(): a copy of the scores.
getScores == [player |-> state.scores.player, ai |-> state.scores.ai]

\* ------------------------------------------------- frame driver and API
\* What the handlers and the frame driver read and write besides the input flags.
World ==
  [state |-> state, overlay |-> overlay, pending |-> pending]

SetWorld(w) ==
  /\ state' = w.state
  /\ overlay' = w.overlay
  /\ pending' = w.pending

With(w, x) == [w EXCEPT !.state = x.state, !.overlay = x.overlay]

\* The id a requestAnimationFrame call returns.  The code only stores an id, tests
\* it against 0 and hands it to cancelAnimationFrame, so ids matter up to renaming:
\* the host's ever-growing counter is modelled by the least positive id that is not
\* pending.  state.rafId, the only place an id is kept, is overwritten by every
\* request, so an id that is reissued is never confused with a stale one.
freshId(ids) ==
  CHOOSE i \in 1..(Cardinality(ids) + 1) :
    /\ i \notin ids
    /\ \A j \in 1..(i - 1) : j \in ids

\* state.rafId = requestAnimationFrame(loop), the host returning id.
queueFrame(w, id) ==
  [w EXCEPT !.state.rafId = id, !.pending = @ \cup {id}]
requestFrame(w) == queueFrame(w, freshId(w.pending))

\* render() applied to what update() left.
rendered(u) == [state |-> u.state, overlay |-> render(u.state, u.overlay)]

\* loop(ts), with t = performance.now() and r the Math.random() value a serve in
\* this tick draws.  (dt = (ts - lastTime) / 1000 is passed on and never used.)
loop(w, o, ts, t, r) ==
  requestFrame(With(w, rendered(update([w.state EXCEPT !.lastTime = << ts >>],
                                       w.overlay, o, t, r))))

\* Mutant of start: no early return when the match is already running.
startAlways(w) ==
  requestFrame([w EXCEPT !.state.running = TRUE,
                         !.state.lastTime = << >>,
                         !.overlay = OverlayClear])

\* start() (host.focus() moves the keyboard focus, which belongs to the page).
start(w) ==
  IF w.state.running THEN w
  ELSE requestFrame([w EXCEPT !.state.running = TRUE,
                              !.state.lastTime = << >>,
                              !.overlay = OverlayClear])

\* stop()
stop(w) ==
  [w EXCEPT !.state.running = FALSE,
            !.pending = IF w.state.rafId # 0 THEN @ \ {w.state.rafId} ELSE @]

\* reset()
reset(w, o, r1, r2) == With(w, resetMatch(w.state, o, r1, r2))

\* The handlers destroy() detaches: removeEventListener x5, resizeObserver.disconnect()
\* and the cleanups array (window resize).
DestroyRemoves ==
  {"keydown", "keyup", "touchstart", "touchmove", "touchend", "resizeObserver", "resize"}

\* updateSize(): cw is the container's width, 0 when it has none.
updateSize(o, cw) == Min2(IF cw = 0 THEN o.width ELSE cw, o.maxWidth)

\* Mutant of tapOrClick: a tap on a stopped match always resets it.
tapOrClickResets(w, o, r1, r2) ==
  IF ~w.state.running THEN reset(w, o, r1, r2) ELSE w

\* The click listener and the tap branch of onTouchEnd.
tapOrClick(w, o, r1, r2) ==
  IF ~w.state.running
  THEN IF w.state.scores.player = 0 /\ w.state.scores.ai = 0
       THEN start(w)
       ELSE reset(w, o, r1, r2)
  ELSE w

\* Which call a tap or click made in world w.
tapCall(w) ==
  IF w.state.running THEN "none"
  ELSE IF w.state.scores.player = 0 /\ w.state.scores.ai = 0 THEN "start"
  ELSE "resetMatch"

\* ------------------------------------------------------------------ Init
InitState ==
  [ball |-> [x |-> FxDiv(Fx(WIDTH), 2), y |-> FxDiv(Fx(HEIGHT), 2),
             vx |-> opts.ballSpeed, vy |-> 0],
   player |-> [y |-> PaddleCentre],
   ai |-> [y |-> PaddleCentre],
   scores |-> [player |-> 0, ai |-> 0],
   running |-> FALSE,
   pausedUntil |-> 0,
   lastTime |-> << >>,
   input |-> [up |-> FALSE, down |-> FALSE],
   rafId |-> 0]

Init ==
  /\ opts \in Options
  /\ state = InitState
  /\ overlay = OverlayStart
  /\ touchStartY = 0
  /\ listeners = HostListeners \cup (IF opts.responsive THEN ResponsiveListeners ELSE {})
  /\ mounted = TRUE
  /\ \E cw \in ContainerWidths :
       hostWidth = IF opts.responsive THEN updateSize(opts, cw) ELSE opts.width
  /\ pending = {}
  /\ now = 0
  /\ destroyed = FALSE
  /\ lastOp = [name |-> "createPong", call |-> "none"]

\* --------------------------------------------------------------- actions
Op(name, call) == lastOp' = [name |-> name, call |-> call]

\* instance.start()
Start ==
  /\ ~destroyed
  /\ SetWorld(start(World))
  /\ Op("start", IF state.running THEN "none" ELSE "start")
  /\ UNCHANGED << opts, touchStartY, listeners, mounted, hostWidth,
                  now, destroyed >>

\* instance.stop()
Stop ==
  /\ ~destroyed
  /\ SetWorld(stop(World))
  /\ Op("stop", "none")
  /\ UNCHANGED << opts, touchStartY, listeners, mounted, hostWidth,
                  now, destroyed >>

\* instance.reset()
Reset ==
  /\ ~destroyed
  /\ \E r1, r2 \in RandomUnit : SetWorld(reset(World, opts, r1, r2))
  /\ Op("reset", "resetMatch")
  /\ UNCHANGED << opts, touchStartY, listeners, mounted, hostWidth,
                  now, destroyed >>

\* instance.destroy()
Destroy ==
  /\ ~destroyed
  /\ SetWorld(stop(World))
  /\ listeners' = listeners \ DestroyRemoves
  /\ mounted' = FALSE
  /\ destroyed' = TRUE
  /\ Op("destroy", "none")
  /\ UNCHANGED << opts, touchStartY, hostWidth, now >>

\* onKeyDown
pressed(s, code) ==
  [s EXCEPT !.input.up = IF code = "ArrowUp" THEN TRUE ELSE @,
            !.input.down = IF code = "ArrowDown" THEN TRUE ELSE @]

KeyDown ==
  /\ "keydown" \in listeners
  /\ \E code \in KeyCodes :
       IF code = "Enter" /\ ~state.running
       THEN /\ \E r1, r2 \in RandomUnit :
                 SetWorld(reset([World EXCEPT !.state = pressed(state, code)],
                                opts, r1, r2))
            /\ Op("event", "resetMatch")
       ELSE /\ SetWorld([World EXCEPT !.state = pressed(state, code)])
            /\ Op("event", "none")
  /\ UNCHANGED << opts, touchStartY, listeners, mounted, hostWidth, now, destroyed >>

\* onKeyUp
KeyUp ==
  /\ "keyup" \in listeners
  /\ \E code \in KeyCodes :
       state' = [state EXCEPT
                   !.input.up = IF code = "ArrowUp" THEN FALSE ELSE @,
                   !.input.down = IF code = "ArrowDown" THEN FALSE ELSE @]
  /\ Op("event", "none")
  /\ UNCHANGED << opts, overlay, touchStartY, listeners, mounted, hostWidth, pending, now, destroyed >>

\* The anonymous click listener.
Click ==
  /\ "click" \in listeners
  /\ mounted
  /\ IF tapCall(World) = "resetMatch"
     THEN \E r1, r2 \in RandomUnit : SetWorld(tapOrClick(World, opts, r1, r2))
     ELSE SetWorld(tapOrClick(World, opts, 0, 0))
  /\ Op("event", tapCall(World))
  /\ UNCHANGED << opts, touchStartY, listeners, mounted, hostWidth, now, destroyed >>

\* onTouchStart; hasTouch: e.touches.length > 0
TouchStart ==
  /\ "touchstart" \in listeners
  /\ mounted
  /\ \E y \in TouchStartYs, hasTouch \in BOOLEAN :
       touchStartY' = IF hasTouch THEN y ELSE touchStartY
  /\ Op("event", "none")
  /\ UNCHANGED << opts, state, overlay, listeners, mounted, hostWidth,
                  pending, now, destroyed >>

\* Mutant of swiped: a swipe latches its own flag and leaves the other one alone.
swipedLatches(s, deltaY) ==
  IF Abs(deltaY) > touchThreshold
  THEN IF deltaY < 0 THEN [s EXCEPT !.input.up = TRUE]
       ELSE [s EXCEPT !.input.down = TRUE]
  ELSE s

\* onTouchMove, lines 183-193: the flags a displacement deltaY leaves.
swiped(s, deltaY) ==
  IF Abs(deltaY) > touchThreshold
  THEN [s EXCEPT !.input = [up |-> deltaY < 0, down |-> ~(deltaY < 0)]]
  ELSE s

\* onTouchMove
TouchMove ==
  /\ "touchmove" \in listeners
  /\ mounted
  /\ \E y \in TouchMoveYs, hasTouch \in BOOLEAN :
       state' = IF hasTouch THEN swiped(state, y - touchStartY) ELSE state
  /\ Op("event", "none")
  /\ UNCHANGED << opts, overlay, touchStartY, listeners, mounted, hostWidth,
                  pending, now, destroyed >>

\* onTouchEnd; hasTouch: e.changedTouches.length > 0, inside: the touch lies in the
\* host rect.  The flags are cleared first; a touch that ends inside the host of a
\* match that is not running is a tap.
released(w) == [w EXCEPT !.state.input = [up |-> FALSE, down |-> FALSE]]

onTouchEnd(w, o, hasTouch, inside, r1, r2) ==
  IF ~w.state.running /\ hasTouch /\ inside
  THEN tapOrClick(released(w), o, r1, r2)
  ELSE released(w)

\* Which call a touch end made in world w.
touchEndCall(w, hasTouch, inside) ==
  IF hasTouch /\ inside THEN tapCall(w) ELSE "none"

\* The Math.random() values a handler draws: resetMatch() draws two, start() none.
Draws(call) == IF call = "resetMatch" THEN RandomUnit ELSE {0}

TouchEnd ==
  /\ "touchend" \in listeners
  /\ mounted
  /\ \E hasTouch, inside \in BOOLEAN :
       /\ \E r1, r2 \in Draws(touchEndCall(World, hasTouch, inside)) :
            SetWorld(onTouchEnd(World, opts, hasTouch, inside, r1, r2))
       /\ Op("event", touchEndCall(World, hasTouch, inside))
  /\ UNCHANGED << opts, touchStartY, listeners, mounted, hostWidth, now, destroyed >>

\* The window resize listener and the ResizeObserver callback, both updateSize().
Resize ==
  /\ listeners \cap ResponsiveListeners # {}
  /\ \E cw \in ContainerWidths : hostWidth' = updateSize(opts, cw)
  /\ Op("event", "none")
  /\ UNCHANGED << opts, state, overlay, touchStartY, listeners, mounted, pending, now, destroyed >>

\* One callback of a frame: its id leaves the queue, loop(ts) runs.
leastId(ids) == CHOOSE i \in ids : \A j \in ids : i <= j
dequeue(w, id) == [w EXCEPT !.pending = @ \ {id}]
tick(w, o, ts, r) == [before |-> w, after |-> loop(w, o, ts, ts, r)]

\* One animation frame of the host: every callback that was pending when the frame
\* began runs, in request order, with the frame's timestamp.  FrameTicks lists the
\* ticks of the frame: the world each callback starts from and the world it leaves.
RECURSIVE FrameTicks(_, _, _, _, _)
ticksAfter(tk, o, ids, ts, rs) == << tk >> \o FrameTicks(tk.after, o, ids, ts, rs)
ticksFrom(w, o, ids, ts, rs, id) ==
  ticksAfter(tick(dequeue(w, id), o, ts, rs[id]), o, ids \ {id}, ts, rs)
FrameTicks(w, o, ids, ts, rs) ==
  IF ids = {} THEN << >> ELSE ticksFrom(w, o, ids, ts, rs, leastId(ids))

lastWorld(ticks) == ticks[Len(ticks)].after
RunFrame(w, o, ids, ts, rs) == lastWorld(FrameTicks(w, o, ids, ts, rs))

\* Every tick the next frame can run from the current state.
Ticks ==
  UNION { { FrameTicks(World, opts, pending, now, rs)[i] : i \in 1..Cardinality(pending) }
          : rs \in [pending -> RandomUnit] }

frameTo(w) ==
  /\ w.state.scores.player <= MaxScore
  /\ w.state.scores.ai <= MaxScore
  /\ SetWorld(w)

Frame ==
  /\ pending # {}
  /\ \E rs \in [pending -> RandomUnit] : frameTo(RunFrame(World, opts, pending, now, rs))
  /\ Op("frame", "none")
  /\ UNCHANGED << opts, touchStartY, listeners, mounted, hostWidth, now, destroyed >>

\* Time passes.
Tock ==
  /\ now + GOAL_PAUSE_MS \div 2 <= MaxTime
  /\ now' = now + GOAL_PAUSE_MS \div 2
  /\ Op("tock", "none")
  /\ UNCHANGED << opts, state, overlay, touchStartY, listeners, mounted, hostWidth, pending, destroyed >>

Next ==
  \/ Start
  \/ Stop
  \/ Reset
  \/ Destroy
  \/ KeyDown
  \/ KeyUp
  \/ Click
  \/ TouchStart
  \/ TouchMove
  \/ TouchEnd
  \/ Resize
  \/ Frame
  \/ Tock

Spec == Init /\ [][Next]_vars

\* ---------------------------------------------------------- construction
\* The world before createPong(container, options) is called: nothing is mounted,
\* no listener is attached, nothing is scheduled.  The closure variables do not
\* exist yet; they carry the values construction is going to give them.
CreateInit ==
  /\ opts \in Options
  /\ state = InitState
  /\ overlay = OverlayStart
  /\ touchStartY = 0
  /\ listeners = {}
  /\ mounted = FALSE
  /\ hostWidth = 0
  /\ pending = {}
  /\ now = 0
  /\ destroyed = FALSE
  /\ lastOp = [name |-> "none", call |-> "none"]

\* createPong(container, options).  hasContainer: the container argument is not
\* null; hasContext: canvas.getContext('2d') returns a context.  The first throw
\* (line 39) precedes every effect; the second (lines 96 / 111) follows
\* container.appendChild(host) (line 67) and precedes every addEventListener.
CreatePong ==
  /\ lastOp.name = "none"
  /\ \E hasContainer, hasContext \in BOOLEAN :
       IF ~hasContainer
       THEN /\ Op("createPongThrew", "none")
            /\ UNCHANGED << state, overlay, touchStartY, listeners, mounted,
                            hostWidth, pending >>
       ELSE IF ~hasContext
       THEN /\ mounted' = TRUE
            /\ Op("createPongThrew", "none")
            /\ UNCHANGED << state, overlay, touchStartY, listeners, hostWidth, pending >>
       ELSE /\ state' = InitState
            /\ overlay' = OverlayStart
            /\ touchStartY' = 0
            /\ listeners' = HostListeners
                              \cup (IF opts.responsive THEN ResponsiveListeners ELSE {})
            /\ mounted' = TRUE
            /\ \E cw \in ContainerWidths :
                 hostWidth' = IF opts.responsive THEN updateSize(opts, cw) ELSE opts.width
            /\ pending' = {}
            /\ Op("createPong", "none")
  /\ UNCHANGED << opts, now, destroyed >>

\* createPong has returned an instance.
Constructed == lastOp.name \notin {"none", "createPongThrew"}

\* The steps of an instance that exists.
Live == Constructed /\ Next

CreateNext ==
  \/ CreatePong
  \/ Live

CreateSpec == CreateInit /\ [][CreateNext]_vars

\* ------------------------------------------------- the ball at a paddle
\* createPong(container) with no options: the defaults of lines 41-54.  maxWidth is
\* read only when responsive is set.
DefaultOptions ==
  [ width |-> 400, responsive |-> FALSE, maxWidth |-> 400,
    playerSpeed |-> Fx(5), aiSpeed |-> Fx(3),
    ballSpeed |-> Fx(4), ballSpeedStep |-> Fx(3) \div 10, ballSpeedMax |-> Fx(10),
    winScore |-> 5 ]

\* States of a rally in which the ball approaches a paddle.
\* Distance of the ball's leading edge from the face of the paddle it approaches.
BandGaps == {1, Fx(3), Fx(7), Fx(10)}
\* Velocities << |vx|, vy >> of the ball: a straight and an oblique serve, a ball
\* after some returns, and three balls at BALL_SPEED_MAX.
BandVelocities ==
  { << Fx(4), 0 >>, << Fx(4), Fx(2) >>, << Fx(7), -Fx(3) >>,
    << Fx(10), 0 >>, << Fx(8), Fx(6) >>, << Fx(6), -Fx(8) >> }
\* Heights of the ball: next to either wall, and in between.
BandBallYs == {Fx(BALL_RADIUS) + Fx(2), Fx(60), Fx(250), Fx(300), Fx(HEIGHT - BALL_RADIUS) - Fx(2)}
\* Positions of the two paddles.
BandPaddleYs == {0, PaddleCentre, PaddleMax}
\* The input flags held.
BandInputs ==
  { [up |-> FALSE, down |-> FALSE], [up |-> TRUE, down |-> FALSE],
    [up |-> FALSE, down |-> TRUE] }

\* The ball with its leading edge gap away from the face of the player paddle
\* (side = -1) or the AI paddle (side = 1), moving toward it.
approaching(side, gap, v, y) ==
  [x |-> IF side < 0 THEN Fx(PLAYER_X + PADDLE_WIDTH + BALL_RADIUS) + gap
         ELSE Fx(AI_X - BALL_RADIUS) - gap,
   y |-> y, vx |-> side * v[1], vy |-> v[2]]

\* A running match with default options, after a frame: one tick is pending.
BandInit ==
  /\ opts = DefaultOptions
  /\ \E side \in {-1, 1}, gap \in BandGaps, v \in BandVelocities, y \in BandBallYs,
        py \in BandPaddleYs, flags \in BandInputs :
       state = [ball |-> approaching(side, gap, v, y),
                player |-> [y |-> py],
                ai |-> [y |-> py],
                scores |-> [player |-> 0, ai |-> 0],
                running |-> TRUE,
                pausedUntil |-> 0,
                lastTime |-> << 0 >>,
                input |-> flags,
                rafId |-> 1]
  /\ overlay = render(state, OverlayClear)
  /\ touchStartY = 0
  /\ listeners = HostListeners
  /\ mounted = TRUE
  /\ hostWidth = opts.width
  /\ pending = {1}
  /\ now = 0
  /\ destroyed = FALSE
  /\ lastOp = [name |-> "frame", call |-> "none"]

\* The frames that follow, with the input held as it is.
BandNext == Frame

BandSpec == BandInit /\ [][BandNext]_vars

\* ================================================================ claims
\* A step is a match reset when it ran resetMatch(): reset(), Enter, or a tap/click
\* that found the match stopped with a score on the board.
MatchReset == lastOp'.call = "resetMatch"
Won == state.scores.player >= opts.winScore \/ state.scores.ai >= opts.winScore
NoScores == [player |-> 0, ai |-> 0]
Centre == [x |-> FxDiv(Fx(WIDTH), 2), y |-> FxDiv(Fx(HEIGHT), 2)]
\* A tick runs the simulation when the match is running and the goal pause is over.
Executes(tk) == tk.before.state.running /\ now >= tk.before.state.pausedUntil

\* C1: once a score has reached winScore, ball position, paddles and scores stay as
\* they are through every step that is not a match reset.
C1_WinIsTerminal ==
  [][(Won /\ ~MatchReset) =>
       /\ state'.ball.x = state.ball.x
       /\ state'.ball.y = state.ball.y
       /\ state'.player = state.player
       /\ state'.ai = state.ai
       /\ state'.scores = state.scores]_vars

\* C2: a tick whose simulation leaves the ball beyond the left (right) goal line adds
\* exactly 1 to the AI (player) score and leaves the other score alone; then either a
\* score has reached winScore, running is false and the ball stays where it went, or
\* pausedUntil = now + 1000 and the ball is at the centre with vx = -ballSpeed
\* (+ballSpeed), that is, heading for the side that conceded.
GoalHandled(tk, scorer, other, dir) ==
  LET b == tk.before.state
      a == tk.after.state
      s1 == simulate(b, opts)
  IN /\ a.scores[scorer] = b.scores[scorer] + 1
     /\ a.scores[other] = b.scores[other]
     /\ IF a.scores.player >= opts.winScore \/ a.scores.ai >= opts.winScore
        THEN /\ ~a.running
             /\ a.ball = s1.ball
        ELSE /\ a.pausedUntil = now + GOAL_PAUSE_MS
             /\ a.ball.x = Centre.x
             /\ a.ball.y = Centre.y
             /\ a.ball.vx = dir * opts.ballSpeed

C2_GoalHandling ==
  \A tk \in Ticks :
    LET s1 == simulate(tk.before.state, opts)
    IN /\ (Executes(tk) /\ s1.ball.x < -Fx(BALL_RADIUS))
            => GoalHandled(tk, "ai", "player", -1)
       /\ (Executes(tk) /\ s1.ball.x > Fx(WIDTH + BALL_RADIUS))
            => GoalHandled(tk, "player", "ai", 1)

\* Reached after a frame: the AI has just won; its first goal was followed by a pause
\* and a serve, its winning goal left the ball beyond the goal line.
C2_Witness ==
  /\ lastOp.name = "frame"
  /\ state.scores = [player |-> 0, ai |-> opts.winScore]
  /\ ~state.running
  /\ state.ball.x < -Fx(BALL_RADIUS)
  /\ state.pausedUntil > 0

\* C3: a tick that fires while running is false, or before pausedUntil, changes none
\* of ball, paddles, scores, running and pausedUntil.
C3_NoDrift ==
  \A tk \in Ticks :
    ~Executes(tk) =>
      /\ tk.after.state.ball = tk.before.state.ball
      /\ tk.after.state.player = tk.before.state.player
      /\ tk.after.state.ai = tk.before.state.ai
      /\ tk.after.state.scores = tk.before.state.scores
      /\ tk.after.state.running = tk.before.state.running
      /\ tk.after.state.pausedUntil = tk.before.state.pausedUntil

\* Reached after a frame that ran in the middle of a goal pause (the pause began
\* before the current time), with a direction key held down.
C3_Witness ==
  /\ lastOp.name = "frame"
  /\ state.running
  /\ now < state.pausedUntil
  /\ state.pausedUntil < now + GOAL_PAUSE_MS
  /\ state.lastTime = << now >>
  /\ state.input.down

\* C4: both paddles stay within [0, HEIGHT - PADDLE_HEIGHT].
C4_PaddlesInField ==
  /\ 0 <= state.player.y /\ state.player.y <= PaddleMax
  /\ 0 <= state.ai.y /\ state.ai.y <= PaddleMax

\* Reached after a frame that moved the player paddle down by more than the room
\* left, with the AI paddle off centre as well.
C4_Witness ==
  /\ lastOp.name = "frame"
  /\ state.input.down /\ ~state.input.up
  /\ state.player.y = PaddleMax
  /\ state.ai.y # PaddleCentre

\* C5: the scores are natural numbers; a step that is no match reset lowers neither,
\* and a match reset sets both to 0.
C5_ScoresMonotone ==
  /\ [](state.scores.player \in Nat /\ state.scores.ai \in Nat)
  /\ [][IF MatchReset
        THEN state'.scores = NoScores
        ELSE /\ state'.scores.player >= state.scores.player
             /\ state'.scores.ai >= state.scores.ai]_vars

\* Reached by Enter on a won match: a match reset, taken by a host event, after
\* goals had been scored (a goal pause had been set).
C5_Witness ==
  /\ lastOp = [name |-> "event", call |-> "resetMatch"]
  /\ state.scores = NoScores
  /\ state.pausedUntil > 0

\* C6: right after construction and right after reset(), getScores() is {0, 0}.
C6_ScoresAfterReset ==
  lastOp.name \in {"createPong", "reset"} => getScores = NoScores

\* Reached by reset() during a goal pause of a running match.
C6_Witness ==
  /\ lastOp.name = "reset"
  /\ now < state.pausedUntil
  /\ pending # {}
  /\ getScores = NoScores

\* C7: right after stop() nothing is pending and running is false, and ball, paddles,
\* scores and pausedUntil are what they were.
C7_StopHaltsTicking ==
  [][lastOp'.name = "stop" =>
       /\ pending' = {}
       /\ ~state'.running
       /\ state'.ball = state.ball
       /\ state'.player = state.player
       /\ state'.ai = state.ai
       /\ state'.scores = state.scores
       /\ state'.pausedUntil = state.pausedUntil]_vars

\* C8: after destroy() none of the registered handlers is attached.
C8_DestroyDetachesAll == destroyed => listeners = {}

\* C9: after destroy() no tick is pending.
C9_NoTickAfterDestroy == destroyed => pending = {}

\* C10: start() on a running match changes nothing and requests no frame, and
\* start(); start() leaves what a single start() leaves.
C10_StartIdempotent ==
  /\ [](start(start(World)) = start(World))
  /\ [][(lastOp'.name = "start" /\ state.running) =>
          /\ state' = state
          /\ pending' = pending
          /\ overlay' = overlay]_vars

\* Reached by start() on a match that was running and had run frames.
C10_Witness ==
  /\ lastOp = [name |-> "start", call |-> "none"]
  /\ state.running
  /\ state.lastTime # << >>
  /\ pending # {}

\* What start() leaves of a stopped match: running, with scores, ball and paddles
\* as they were.
Started(w) ==
  /\ w.state.running
  /\ w.state.scores = state.scores
  /\ w.state.ball = state.ball
  /\ w.state.player = state.player
  /\ w.state.ai = state.ai
\* What a full match reset leaves: running, scores 0, ball and paddles recentred.
FullyReset(w) ==
  /\ w.state.running
  /\ w.state.scores = NoScores
  /\ w.state.ball.x = Centre.x
  /\ w.state.ball.y = Centre.y
  /\ w.state.player.y = PaddleCentre
  /\ w.state.ai.y = PaddleCentre
\* What a click or tap leaves, flags being the input flags it is to leave on a
\* running match.
DoubleDuty(w, flags) ==
  IF state.running THEN w = [World EXCEPT !.state.input = flags]
  ELSE IF state.scores = NoScores THEN Started(w)
  ELSE FullyReset(w)

\* C11: in every reachable state a click, or a tap (a touch end inside the host),
\* on a match that is not running starts it when both scores are 0 and resets it
\* fully otherwise; on a running match a click changes nothing and a touch end only
\* clears the input flags.
C11_TapDoubleDuty ==
  \A r1, r2 \in RandomUnit :
    /\ DoubleDuty(tapOrClick(World, opts, r1, r2), state.input)
    /\ DoubleDuty(onTouchEnd(World, opts, TRUE, TRUE, r1, r2),
                  [up |-> FALSE, down |-> FALSE])

\* Reached by a click or tap on the never-started or stopped match at 0-0: start()
\* was called by a host event, the match runs and a frame is requested.
C11_Witness ==
  /\ lastOp = [name |-> "event", call |-> "start"]
  /\ state.running
  /\ state.scores = NoScores
  /\ pending # {}

\* C12: a touch move displaced by more than 20 downward from the gesture start sets
\* down and clears up, by more than 20 upward sets up and clears down, by 20 or
\* less leaves both flags; the end of the gesture clears both.
SwipeFlags(deltaY) ==
  IF deltaY > touchThreshold THEN [up |-> FALSE, down |-> TRUE]
  ELSE IF deltaY < -touchThreshold THEN [up |-> TRUE, down |-> FALSE]
  ELSE state.input

C12_Swipe ==
  /\ \A y \in TouchMoveYs :
       swiped(state, y - touchStartY).input = SwipeFlags(y - touchStartY)
  /\ \A hasTouch, inside \in BOOLEAN : \A r1, r2 \in RandomUnit :
       onTouchEnd(World, opts, hasTouch, inside, r1, r2).state.input
         = [up |-> FALSE, down |-> FALSE]

\* Reached by a swipe of more than 20 upward in a gesture that began at a touch
\* point: up is set, down is clear.
C12_Witness ==
  /\ lastOp = [name |-> "event", call |-> "none"]
  /\ touchStartY \in TouchStartYs
  /\ state.input = [up |-> TRUE, down |-> FALSE]

\* The ball of state s after integration and the wall checks, before the paddle checks.
AfterWalls(s) == bounceBottom(bounceTop(integrate(s.ball)))
\* The ball after the player-paddle check, as the AI-paddle check finds it.
AfterPlayer(s) == collidePlayer(AfterWalls(s), opts, movePlayer(s, opts))
\* The paddle collision that fires in tick tk.
PlayerBounce(tk) ==
  Executes(tk) /\ HitsPlayer(AfterWalls(tk.before.state), movePlayer(tk.before.state, opts))
AiBounce(tk) ==
  Executes(tk) /\ HitsAi(AfterPlayer(tk.before.state), moveAi(tk.before.state, opts))
Speed(ball) == Hypot(ball.vx, ball.vy)

\* C13: a tick in which a paddle collision fires leaves the ball with speed
\* min(previousSpeed + ballSpeedStep, ballSpeedMax), previousSpeed being the speed
\* it had before the bounce, up to one unit of the fixed-point resolution (the
\* rounding of sqrt and of the divisions); that speed lies between the initial
\* speed and ballSpeedMax.
C13_BounceSpeed ==
  \A tk \in Ticks :
    (PlayerBounce(tk) \/ AiBounce(tk)) =>
      /\ Abs(Speed(tk.after.state.ball)
             - Min2(Speed(AfterWalls(tk.before.state)) + opts.ballSpeedStep,
                    opts.ballSpeedMax)) <= 1
      /\ Speed(tk.after.state.ball) >= opts.ballSpeed - 1
      /\ Speed(tk.after.state.ball) <= opts.ballSpeedMax

\* Reached after a frame in which the player paddle returned a serve that was
\* faster than ballSpeedMax - ballSpeedStep: the ball leaves the paddle at the cap.
C13_Witness ==
  /\ lastOp.name = "frame"
  /\ state.ball.x = Fx(PLAYER_X + PADDLE_WIDTH + BALL_RADIUS)
  /\ state.ball.vx > 0
  /\ Abs(Speed(state.ball) - opts.ballSpeedMax) <= 1

\* C14: a construction that failed (no container, or no 2D context) leaves nothing
\* mounted in the container, no listener registered and no tick scheduled.
C14_FailedConstructionLeavesNoTrace ==
  lastOp.name = "createPongThrew" => (~mounted /\ listeners = {} /\ pending = {})

\* C15: while the instance is not destroyed, a running match has a tick pending.
C15_RunningMeansScheduled ==
  (~destroyed /\ state.running) => pending # {}

\* C16: at most one tick is pending, and state.rafId identifies it.
C16_SinglePendingTick ==
  /\ Cardinality(pending) <= 1
  /\ pending # {} => pending = {state.rafId}

\* 1 for a flag that is set, 0 for one that is clear.
Bit(flag) == IF flag THEN 1 ELSE 0

\* C17: a tick that runs the simulation moves the player paddle to
\* clamp(player.y + playerSpeed * (down - up), 0, HEIGHT - PADDLE_HEIGHT), so with up
\* and down both set it stays where it is; no tick changes the input flags.
C17_PlayerAdditive ==
  \A tk \in Ticks :
    LET b == tk.before.state
        a == tk.after.state
    IN /\ a.input = b.input
       /\ Executes(tk) =>
            /\ a.player.y = clamp(b.player.y
                                    + opts.playerSpeed * (Bit(b.input.down) - Bit(b.input.up)),
                                  0, PaddleMax)
            /\ (b.input.up /\ b.input.down) => a.player.y = b.player.y

\* Reached after a frame that ran the simulation (the ball has left the centre line)
\* with both flags set and the paddle still at the centre.
C17_Witness ==
  /\ lastOp.name = "frame"
  /\ state.input = [up |-> TRUE, down |-> TRUE]
  /\ state.running
  /\ state.lastTime = << now >>
  /\ state.ball.x # Centre.x
  /\ state.player.y = PaddleCentre

\* C18: a tick that runs the simulation moves the AI paddle toward
\* ball.y - PADDLE_HEIGHT / 2 (the ball as the tick found it) by at most aiSpeed, and by
\* at most 30% of aiSpeed when the ball's vx is negative; it never moves away from
\* that target and never past it.
AiTarget(s) == s.ball.y - FxDiv(Fx(PADDLE_HEIGHT), 2)
AiCap(s) == IF s.ball.vx < 0 THEN (opts.aiSpeed * 3) \div 10 ELSE opts.aiSpeed

C19_BounceSendsAway ==
  \A tk \in Ticks :
    LET b == tk.before.state
        a == tk.after.state
    IN /\ PlayerBounce(tk) =>
            /\ AfterWalls(b).vx < 0
            /\ a.ball.x = Fx(PLAYER_X + PADDLE_WIDTH + BALL_RADIUS)
            /\ a.ball.vx > 0
            /\ a.scores = b.scores
       /\ AiBounce(tk) =>
            /\ AfterPlayer(b).vx > 0
            /\ a.ball.x = Fx(AI_X - BALL_RADIUS)
            /\ a.ball.vx < 0
            /\ a.scores = b.scores

\* Reached after a frame in which the AI paddle returned the ball.
C19_Witness ==
  /\ lastOp.name = "frame"
  /\ state.ball.x = Fx(AI_X - BALL_RADIUS)
  /\ state.ball.vx < 0
  /\ state.running

\* The ball stays between the walls.
BallInField ==
  /\ state.ball.y >= Fx(BALL_RADIUS)
  /\ state.ball.y <= Fx(HEIGHT - BALL_RADIUS)
\* The wall the ball of state s reaches in a tick, after integration.
ReachesTop(s) == integrate(s.ball).y - Fx(BALL_RADIUS) <= 0
ReachesBottom(s) == integrate(s.ball).y + Fx(BALL_RADIUS) >= Fx(HEIGHT)
\* The ball is on the wall at height y, vy inverted relative to the integrated ball of s.
OnWall(ball, y, s) == ball.y = y /\ ball.vy = -integrate(s.ball).vy
\* Tick tk scored a goal that was followed by a serve.
Served(tk) == tk.after.state.pausedUntil # tk.before.state.pausedUntil

\* C20 as stated: the ball stays between the walls, and a tick in which its top or
\* bottom edge reaches a wall ends with the ball on that wall and vy inverted.
C20_WallTickEndsOnWall ==
  /\ BallInField
  /\ \A tk \in Ticks :
       Executes(tk) =>
         /\ ReachesTop(tk.before.state) =>
              OnWall(tk.after.state.ball, Fx(BALL_RADIUS), tk.before.state)
         /\ ReachesBottom(tk.before.state) =>
              OnWall(tk.after.state.ball, Fx(HEIGHT - BALL_RADIUS), tk.before.state)

\* C20, amended: the ball stays between the walls; the wall check of a tick in which
\* its top or bottom edge reaches a wall leaves the ball on that wall with vy
\* inverted, and the tick ends with that y and vy unless a paddle collision (which
\* rewrites vy) or a goal followed by a serve (which recentres the ball) comes later
\* in the same tick; after a paddle collision the ball is still on the wall.
C20_BallInField ==
  /\ BallInField
  /\ \A tk \in Ticks :
       LET b == tk.before.state
           a == tk.after.state
       IN Executes(tk) =>
            /\ ReachesTop(b) => OnWall(AfterWalls(b), Fx(BALL_RADIUS), b)
            /\ ReachesBottom(b) => OnWall(AfterWalls(b), Fx(HEIGHT - BALL_RADIUS), b)
            /\ ~Served(tk) => a.ball.y = AfterWalls(b).y
            /\ (~Served(tk) /\ ~PlayerBounce(tk) /\ ~AiBounce(tk))
                 => a.ball.vy = AfterWalls(b).vy

\* Reached after a frame in which the ball reached the bottom wall inside the field:
\* it lies on the wall and moves up.
C20_Witness ==
  /\ lastOp.name = "frame"
  /\ state.running
  /\ state.ball.y = Fx(HEIGHT - BALL_RADIUS)
  /\ state.ball.vy < 0
  /\ state.ball.x > 0
  /\ state.ball.x < Fx(WIDTH)

\* C21: neither score ever exceeds winScore.
C21_ScoresBounded ==
  /\ state.scores.player <= opts.winScore
  /\ state.scores.ai <= opts.winScore

\* C22: in every reachable state a match reset leaves pausedUntil and the input
\* flags as they are, zeroes the scores and recentres ball and paddles; taken before
\* the pause deadline, it leaves a running match in which a tick before the deadline
\* changes nothing.
ResetKeepsPause(w) ==
  /\ w.state.pausedUntil = state.pausedUntil
  /\ w.state.input = state.input
  /\ FullyReset(w)
  /\ now < state.pausedUntil =>
       \A r \in RandomUnit : update(w.state, w.overlay, opts, now, r).state = w.state

C22_ResetKeepsPause ==
  \A r1, r2 \in RandomUnit : ResetKeepsPause(reset(World, opts, r1, r2))

\* Reached by a frame that follows a match reset taken during a goal pause with the
\* down key held: the board shows 0-0, the deadline of the pause is still ahead, and
\* ball and player paddle are where the reset put them.
C22_Witness ==
  /\ lastOp.name = "frame"
  /\ state.running
  /\ state.scores = NoScores
  /\ now < state.pausedUntil
  /\ state.lastTime = << now >>
  /\ state.input.down /\ ~state.input.up
  /\ state.ball.x = Centre.x
  /\ state.player.y = PaddleCentre

\* The leading edge of the ball toward the player side and toward the AI side.
LeftEdge(ball) == ball.x - Fx(BALL_RADIUS)
RightEdge(ball) == ball.x + Fx(BALL_RADIUS)
\* The ball's leading edge lies in the thickness band of a paddle.
InPlayerBand(ball) ==
  LeftEdge(ball) >= Fx(PLAYER_X) /\ LeftEdge(ball) <= Fx(PLAYER_X + PADDLE_WIDTH)
InAiBand(ball) ==
  RightEdge(ball) >= Fx(AI_X) /\ RightEdge(ball) <= Fx(AI_X + PADDLE_WIDTH)
\* The ball's centre is level with a paddle at paddleY.
Level(ball, paddleY) == ball.y >= paddleY /\ ball.y <= paddleY + Fx(PADDLE_HEIGHT)

\* C23: with the default settings the ball moves less than a paddle's thickness per
\* tick; a tick that finds the ball in front of a paddle and moving toward it leaves
\* its leading edge in front of or inside that paddle's band, never behind it; a tick
\* that leaves the leading edge inside the band with the centre level with the
\* paddle returns the ball and scores nothing; and a tick that scores a goal found
\* the leading edge already behind the band.
C23_NoTunnelling ==
  /\ Abs(state.ball.vx) < Fx(PADDLE_WIDTH)
  /\ \A tk \in Ticks :
       LET b == tk.before.state
           m == AfterWalls(tk.before.state)
           a == tk.after.state
       IN Executes(tk) =>
            /\ (b.ball.vx < 0 /\ LeftEdge(b.ball) > Fx(PLAYER_X + PADDLE_WIDTH))
                 => LeftEdge(m) >= Fx(PLAYER_X)
            /\ (b.ball.vx > 0 /\ RightEdge(b.ball) < Fx(AI_X))
                 => RightEdge(m) <= Fx(AI_X + PADDLE_WIDTH)
            /\ (InPlayerBand(m) /\ Level(m, movePlayer(b, opts)))
                 => /\ a.scores = b.scores
                    /\ a.ball.x = Fx(PLAYER_X + PADDLE_WIDTH + BALL_RADIUS)
                    /\ a.ball.vx > 0
            /\ (InAiBand(m) /\ Level(m, moveAi(b, opts)))
                 => /\ a.scores = b.scores
                    /\ a.ball.x = Fx(AI_X - BALL_RADIUS)
                    /\ a.ball.vx < 0
            /\ a.scores.ai > b.scores.ai => LeftEdge(b.ball) < Fx(PLAYER_X)
            /\ a.scores.player > b.scores.player
                 => RightEdge(b.ball) > Fx(AI_X + PADDLE_WIDTH)

\* Reached after a frame in which the ball, having passed the player paddle's band
\* above or below the paddle, crossed the goal line: the AI has scored and serves.
C23_Witness ==
  /\ lastOp.name = "frame"
  /\ opts = DefaultOptions
  /\ state.scores = [player |-> 0, ai |-> 1]
  /\ state.ball.x = Centre.x
  /\ state.pausedUntil = now + GOAL_PAUSE_MS

====
